---- MODULE Spec2Model ----
\* Model of the go-logger dispatch core: Logger with its output bindings,
\* synchronous / asynchronous delivery, the message and signal channels, the
\* WaitGroup and the background drain goroutines started by SetAsync.
EXTENDS Integers, Sequences, FiniteSets, TLC

\* ---------------------------------------------------------------- bounds
MaxCalls == 4     \* calls of the logger's API made in one behaviour
MaxLogs == 3      \* of them, log calls
MaxAttach == 2    \* of them, Attach calls that return
MaxAsync == 2     \* of them, SetAsync calls
MaxFlush == 2     \* of them, Flush calls
MaxCap == 2       \* largest queue capacity passed to SetAsync
MaxErrs == 1      \* adapter Write calls that return an error
MaxFormatLen == 6 \* longest template passed to loggerMessageFormat

\* ---------------------------------------------------------------- constants
LoggerLevelEmergency == 0
LoggerLevelAlert == 1
LoggerLevelCritical == 2
LoggerLevelError == 3
LoggerLevelWarning == 4
LoggerLevelNotice == 5
LoggerLevelInfo == 6
LoggerLevelDebug == 7
DefaultChanLen == 10

\* the goroutines of the embedding application that call the logger: "main"
\* sets the logger up (Attach, Detach, SetAsync), both log and flush
Callers == {"main", "worker"}
Admins == {"main"}

\* a slip of levelStringMapping: one key too many
levelStringMappingWide == LoggerLevelEmergency .. LoggerLevelDebug + 1

\* keys of levelStringMapping
levelStringMapping == LoggerLevelEmergency .. LoggerLevelDebug

\* the adapter registry as populated by the adapters' init functions
adapters == {"console", "file", "api"}

\* inputs the callers draw from ("db" is no registered adapter, the levels
\* before Emergency and after Debug are no levels)
LogLevels == {LoggerLevelEmergency - 1, LoggerLevelWarning, LoggerLevelNotice,
              LoggerLevelDebug + 1}
AttachNames == {"console", "file", "api", "db"}
AttachLevels == {LoggerLevelWarning, LoggerLevelDebug}
QueueCaps == 1 .. MaxCap

VARIABLES
    exit,        \* "none", or the reason printError terminated the process
    outputs,     \* logger.outputs: sequence of bindings [id, Name, Level]
    nextId,      \* identity of the next *outputLogger allocated
    synchronous, \* logger.synchronous
    wait,        \* logger.wait: the WaitGroup counter
    cur,         \* the channel pair logger.msgChan / logger.signalChan point to
    msgChan,     \* per channel pair: buffered events
    signalChan,  \* per channel pair: number of buffered "flush" strings
    chanCap,     \* per channel pair: capacity of the message channel
    tasks,       \* drain goroutines: [pc, g, msg]
    pc,          \* per caller: where it is
    cg,          \* per caller: channel pair a blocked send is on
    cmsg,        \* per caller: event held by a blocked send
    ret,         \* per caller: value returned by its last call
    events,      \* history: every loggerMessage created, [level, by, g, outs]
    enq,         \* history: event ids in the order they entered a channel
    dispatched,  \* history: writeToOutputs calls, [e, snap, by]
    written,     \* history: adapter Write calls, [b, e, err]
    fseen,       \* history: per caller, its last Flush: [mode, seen, outs],
                 \*   the bindings flushed since it began and those attached
                 \*   when it returned
    nFlush,      \* history: number of Flush calls made
    nCalls,      \* history: number of API calls made
    registry,    \* the adapters map: registered name -> constructor
    panicked,    \* "none", or the reason Register panicked
    levelStr,    \* argument of a LoggerLevel call
    levelRet,    \* its result, -1 before the call
    format,      \* arguments of a loggerMessageFormat call: the template
    loggerMsg,   \*   and the message's fields
    formatted,   \* its result
    trace        \* history: the values its local `message` took, in order

vars == <<exit, outputs, nextId, synchronous, wait, cur, msgChan, signalChan,
          chanCap, tasks, pc, cg, cmsg, ret, events, enq, dispatched, written,
          fseen, nFlush, nCalls, registry, panicked, levelStr, levelRet,
          format, loggerMsg, formatted, trace>>

logVars == <<events, enq, dispatched, written>>
chanVars == <<cur, msgChan, signalChan, chanCap>>
callVars == <<pc, cg, cmsg, ret>>
flushVars == <<fseen, nFlush>>
registerVars == <<registry, panicked>>
levelVars == <<levelStr, levelRet>>
formatVars == <<format, loggerMsg, formatted, trace>>


Ready == {"idle", "flushRet"}

\* a call of the API by a caller that is not inside another call
Call(c) ==
    /\ exit = "none"
    /\ pc[c] \in Ready
    /\ nCalls < MaxCalls
    /\ nCalls' = nCalls + 1
    /\ UNCHANGED <<registerVars, levelVars, formatVars>>

Ids(outs) == {outs[i].id : i \in 1 .. Len(outs)}

NumErrs == Cardinality({i \in 1 .. Len(written) : written[i].err})

\* ---------------------------------------------------------------- Init
\* NewLogger: empty outputs, 10-slot message channel, synchronous, then
\* attach("console", LoggerLevelDebug, &ConsoleConfig{}).
NewLogger ==
    /\ exit = "none"
    /\ outputs = <<[id |-> 1, Name |-> "console", Level |-> LoggerLevelDebug]>>
    /\ nextId = 2
    /\ synchronous = TRUE
    /\ wait = 0
    /\ cur = 0
    /\ msgChan = [g \in {0} |-> <<>>]
    /\ signalChan = [g \in {0} |-> 0]
    /\ chanCap = [g \in {0} |-> DefaultChanLen]
    /\ tasks = <<>>
    /\ pc = [c \in Callers |-> "idle"]
    /\ cg = [c \in Callers |-> 0]
    /\ cmsg = [c \in Callers |-> 0]
    /\ ret = [c \in Callers |-> "none"]
    /\ events = <<>>
    /\ enq = <<>>
    /\ dispatched = <<>>
    /\ written = <<>>
    /\ fseen = [c \in Callers |-> [mode |-> "none", seen |-> {}, outs |-> {}]]
    /\ nFlush = 0
    /\ nCalls = 0

\* the fields of loggerMessage
MsgFields == {"Timestamp", "TimestampFormat", "Millisecond",
              "MillisecondFormat", "Level", "LevelString", "Body", "File",
              "Line", "Function"}

\* no LoggerLevel call made
NoLevelCall == levelStr = <<>> /\ levelRet = -1

\* no loggerMessageFormat call made
NoFormatCall ==
    /\ format = <<>>
    /\ loggerMsg = [f \in MsgFields |-> <<>>]
    /\ formatted = <<>>
    /\ trace = <<>>

\* the state a program is in after its packages' init functions have
\* registered the adapters and it has called NewLogger
Init ==
    /\ NewLogger
    /\ registry = [n \in adapters |-> "NewAdapter"]
    /\ panicked = "none"
    /\ NoLevelCall
    /\ NoFormatCall

\* printError: print the message and os.Exit(0); nothing runs afterwards.
printError(message) ==
    /\ exit' = message
    /\ UNCHANGED <<outputs, nextId, synchronous, wait, chanVars, tasks,
                   callVars, logVars, flushVars>>

\* ---------------------------------------------------------------- attach
\* a slip of Logger.attach: the binding is put in front
attachOutputsFront(outs, id, adapterName, level) ==
    <<[id |-> id, Name |-> adapterName, Level |-> level]>> \o outs

\* Logger.attach: the binding appended when no printError fires.
attachOutputs(outs, id, adapterName, level) ==
    Append(outs, [id |-> id, Name |-> adapterName, Level |-> level])

\* a slip of Logger.attach: the attached names are not looked at
attachErrorNoDuplicateCheck(outs, adapterName, configOk) ==
    IF adapterName \notin adapters
    THEN "is nil"
    ELSE IF ~configOk
    THEN "init failed"
    ELSE "none"

\* which printError, if any, Logger.attach reaches first
attachError(outs, adapterName, configOk) ==
    IF \E i \in 1 .. Len(outs) : outs[i].Name = adapterName
    THEN "already attached"
    ELSE IF adapterName \notin adapters
    THEN "is nil"
    ELSE IF ~configOk
    THEN "init failed"
    ELSE "none"

Attach(c, adapterName, level, configOk) ==
    /\ Call(c)
    /\ nextId - 2 < MaxAttach
    /\ LET e == attachError(outputs, adapterName, configOk) IN
       IF e # "none"
       THEN printError(e)
       ELSE /\ outputs' = attachOutputs(outputs, nextId, adapterName, level)
            /\ nextId' = nextId + 1
            /\ pc' = [pc EXCEPT ![c] = "idle"]
            /\ ret' = [ret EXCEPT ![c] = "nil"]
            /\ UNCHANGED <<exit, synchronous, wait, chanVars, tasks, cg, cmsg,
                           logVars, flushVars>>

\* ---------------------------------------------------------------- detach
\* a slip of Logger.detach: break where the code has continue
RECURSIVE detachBreak(_, _)
detachBreak(outs, adapterName) ==
    IF outs = <<>> THEN <<>>
    ELSE IF Head(outs).Name = adapterName
    THEN <<>>
    ELSE <<Head(outs)>> \o detachBreak(Tail(outs), adapterName)

\* Logger.detach: the bindings kept, in order
RECURSIVE detach(_, _)
detach(outs, adapterName) ==
    IF outs = <<>> THEN <<>>
    ELSE IF Head(outs).Name = adapterName
    THEN detach(Tail(outs), adapterName)
    ELSE <<Head(outs)>> \o detach(Tail(outs), adapterName)

Detach(c, adapterName) ==
    /\ Call(c)
    /\ outputs' = detach(outputs, adapterName)
    /\ pc' = [pc EXCEPT ![c] = "idle"]
    /\ ret' = [ret EXCEPT ![c] = "nil"]
    /\ UNCHANGED <<exit, nextId, synchronous, wait, chanVars, tasks, cg, cmsg,
                   logVars, flushVars>>

\* ---------------------------------------------------------------- SetAsync
\* a slip of Logger.SetAsync: the mode is flipped
SetAsyncToggle(c, msgChanLen) ==
    /\ Call(c)
    /\ Len(tasks) < MaxAsync
    /\ synchronous' = ~synchronous
    /\ cur' = cur + 1
    /\ msgChan' = msgChan @@ ((cur + 1) :> <<>>)
    /\ signalChan' = signalChan @@ ((cur + 1) :> 0)
    /\ chanCap' = chanCap @@ ((cur + 1) :> msgChanLen)
    /\ tasks' = Append(tasks, [pc |-> "loop", g |-> 0, msg |-> 0])
    /\ pc' = [pc EXCEPT ![c] = "idle"]
    /\ UNCHANGED <<exit, outputs, nextId, wait, cg, cmsg, ret, logVars, flushVars>>

\* Logger.SetAsync: new channels of the given capacity and one more drain
\* goroutine, which has not yet evaluated its first select.
SetAsync(c, msgChanLen) ==
    /\ Call(c)
    /\ Len(tasks) < MaxAsync
    /\ synchronous' = FALSE
    /\ cur' = cur + 1
    /\ msgChan' = msgChan @@ ((cur + 1) :> <<>>)
    /\ signalChan' = signalChan @@ ((cur + 1) :> 0)
    /\ chanCap' = chanCap @@ ((cur + 1) :> msgChanLen)
    /\ tasks' = Append(tasks, [pc |-> "loop", g |-> 0, msg |-> 0])
    /\ pc' = [pc EXCEPT ![c] = "idle"]
    /\ UNCHANGED <<exit, outputs, nextId, wait, cg, cmsg, ret, logVars, flushVars>>

\* ---------------------------------------------------------------- dispatch
\* a slip of writeToOutputs: > where the code has >=
admitsStrictly(outputLevel, msgLevel) == outputLevel > msgLevel

\* the test of writeToOutputs: the binding is written when its Level is
\* numerically at least the message's level
admits(outputLevel, msgLevel) == outputLevel >= msgLevel

\* a slip of writeToOutputs: the loop returns at the first Write error
RECURSIVE writeToOutputsReturnOnError(_, _, _, _)
writeToOutputsReturnOnError(outs, e, level, errs) ==
    IF outs = <<>> THEN <<>>
    ELSE IF ~admits(Head(outs).Level, level)
    THEN writeToOutputsReturnOnError(Tail(outs), e, level, errs)
    ELSE IF Head(outs).id \in errs
    THEN <<[b |-> Head(outs).id, e |-> e, err |-> TRUE]>>
    ELSE <<[b |-> Head(outs).id, e |-> e, err |-> FALSE]>>
         \o writeToOutputsReturnOnError(Tail(outs), e, level, errs)

\* Logger.writeToOutputs: the Write calls made for event e over the bindings
\* outs, in order; errs is the set of bindings whose Write returns an error
\* (reported on stderr, the loop goes on).
RECURSIVE writeToOutputs(_, _, _, _)
writeToOutputs(outs, e, level, errs) ==
    IF outs = <<>> THEN <<>>
    ELSE (IF admits(Head(outs).Level, level)
          THEN <<[b |-> Head(outs).id, e |-> e, err |-> Head(outs).id \in errs]>>
          ELSE <<>>)
         \o writeToOutputs(Tail(outs), e, level, errs)

\* the sets of failing bindings a dispatch may meet
ErrChoices(outs, level) ==
    {errs \in SUBSET {outs[i].id : i \in {j \in 1 .. Len(outs) :
                                          admits(outs[j].Level, level)}} :
        Cardinality(errs) + NumErrs <= MaxErrs}

\* a slip of the drain: the event goes to the bindings that were attached
\* when it was logged
DispatchToBindingsAtLog(e, level, by) ==
    LET atLog(o) == by.task = 0 \/ o.id \in events[e].outs
        outs == SelectSeq(outputs, atLog)
    IN  \E errs \in ErrChoices(outs, level) :
            /\ written' = written \o writeToOutputs(outs, e, level, errs)
            /\ dispatched' = Append(dispatched, [e |-> e, snap |-> outs, by |-> by])

\* one call of writeToOutputs on the current logger.outputs, made by the
\* thread `by`: [caller, task], a caller or a drain goroutine
Dispatch(e, level, by) ==
    \E errs \in ErrChoices(outputs, level) :
        /\ written' = written \o writeToOutputs(outputs, e, level, errs)
        /\ dispatched' = Append(dispatched, [e |-> e, snap |-> outputs, by |-> by])

\* ---------------------------------------------------------------- Writer
\* a slip of Logger.Writer: the event is not counted
waitAddMissing(w) == w

\* the value logger.wait.Add(1) leaves in the counter
waitAdd(w) == w + 1

\* Logger.Writer up to its hand-over: the level check, the message, then
\* either wait.Add(1) and the channel send, or writeToOutputs on the caller.
Writer(c, level) ==
    /\ Call(c)
    /\ Len(events) < MaxLogs
    /\ IF level \notin levelStringMapping
       THEN printError("illegal level")
       ELSE LET e == Len(events) + 1
                m == [level |-> level, by |-> c,
                      g |-> cur,
                      outs |-> Ids(outputs)]
            IN  IF ~synchronous
                THEN /\ events' = Append(events, m)
                     /\ wait' = waitAdd(wait)
                     /\ pc' = [pc EXCEPT ![c] = "send"]
                     /\ cg' = [cg EXCEPT ![c] = cur]
                     /\ cmsg' = [cmsg EXCEPT ![c] = e]
                     /\ UNCHANGED <<exit, outputs, nextId, synchronous, chanVars,
                                    tasks, ret, enq, dispatched, written,
                                    flushVars>>
                ELSE /\ events' = Append(events, m)
                     /\ Dispatch(e, level, [caller |-> c, task |-> 0])
                     /\ pc' = [pc EXCEPT ![c] = "idle"]
                     /\ ret' = [ret EXCEPT ![c] = "nil"]
                     /\ UNCHANGED <<exit, outputs, nextId, synchronous, wait,
                                    chanVars, tasks, cg, cmsg, enq, flushVars>>

\* logger.msgChan <- loggerMsg: completes when the channel has room
WriterSend(c) ==
    /\ exit = "none"
    /\ UNCHANGED <<nCalls, registerVars, levelVars, formatVars>>
    /\ pc[c] = "send"
    /\ Len(msgChan[cg[c]]) < chanCap[cg[c]]
    /\ msgChan' = [msgChan EXCEPT ![cg[c]] = Append(@, cmsg[c])]
    /\ enq' = Append(enq, cmsg[c])
    /\ pc' = [pc EXCEPT ![c] = "idle"]
    /\ ret' = [ret EXCEPT ![c] = "nil"]
    /\ UNCHANGED <<exit, outputs, nextId, synchronous, wait, cur, signalChan,
                   chanCap, tasks, cg, cmsg, events, dispatched, written,
                   flushVars>>

\* ---------------------------------------------------------------- drain task
\* the channel pair a goroutine's select is on: evaluated on entry to the
\* select, kept while the goroutine is blocked in it
selChan(t) == IF tasks[t].pc = "loop" THEN cur ELSE tasks[t].g

setTask(t, p, g, m) == [tasks EXCEPT ![t] = [pc |-> p, g |-> g, msg |-> m]]

\* the guard of Logger.flush
flushGuard(sync) == ~sync

\* startAsyncWrite, select found nothing ready: the goroutine blocks on the
\* channels it evaluated
TaskPark(t) ==
    /\ exit = "none"
    /\ UNCHANGED <<nCalls, registerVars, levelVars, formatVars>>
    /\ tasks[t].pc = "loop"
    /\ msgChan[cur] = <<>>
    /\ signalChan[cur] = 0
    /\ tasks' = setTask(t, "parked", cur, 0)
    /\ UNCHANGED <<exit, outputs, nextId, synchronous, wait, chanVars,
                   callVars, logVars, flushVars>>

\* startAsyncWrite, case loggerMsg := <-logger.msgChan
TaskRecvMsg(t) ==
    /\ exit = "none"
    /\ UNCHANGED <<nCalls, registerVars, levelVars, formatVars>>
    /\ tasks[t].pc \in {"loop", "parked"}
    /\ LET g == selChan(t) IN
        /\ msgChan[g] # <<>>
        /\ msgChan' = [msgChan EXCEPT ![g] = Tail(@)]
        /\ tasks' = setTask(t, "write", 0, Head(msgChan[g]))
    /\ UNCHANGED <<exit, outputs, nextId, synchronous, wait, cur, signalChan,
                   chanCap, callVars, logVars, flushVars>>

\* startAsyncWrite, case signal := <-logger.signalChan, and the entry of
\* Logger.flush
TaskRecvSig(t) ==
    /\ exit = "none"
    /\ UNCHANGED <<nCalls, registerVars, levelVars, formatVars>>
    /\ tasks[t].pc \in {"loop", "parked"}
    /\ LET g == selChan(t) IN
        /\ signalChan[g] > 0
        /\ signalChan' = [signalChan EXCEPT ![g] = @ - 1]
        /\ tasks' = setTask(t, IF flushGuard(synchronous) THEN "fcheck" ELSE "loop",
                            0, 0)
    /\ UNCHANGED <<exit, outputs, nextId, synchronous, wait, cur, msgChan,
                   chanCap, callVars, logVars, flushVars>>

\* logger.writeToOutputs(loggerMsg) on the drain goroutine, from the select
\* branch ("write") or from the loop of Logger.flush ("fwrite")
TaskWrite(t) ==
    /\ exit = "none"
    /\ UNCHANGED <<nCalls, registerVars, levelVars, formatVars>>
    /\ tasks[t].pc \in {"write", "fwrite"}
    /\ Dispatch(tasks[t].msg, events[tasks[t].msg].level,
                [caller |-> "", task |-> t])
    /\ tasks' = setTask(t, IF tasks[t].pc = "write" THEN "done" ELSE "fdone",
                        0, tasks[t].msg)
    /\ UNCHANGED <<exit, outputs, nextId, synchronous, wait, chanVars,
                   callVars, events, enq, flushVars>>

\* a slip of the drain: the event is not counted off
waitDoneMissing(w) == w

\* the value logger.wait.Done() leaves in the counter
waitDone(w) == w - 1

\* logger.wait.Done() after the dispatch
TaskDone(t) ==
    /\ exit = "none"
    /\ UNCHANGED <<nCalls, registerVars, levelVars, formatVars>>
    /\ tasks[t].pc \in {"done", "fdone"}
    /\ wait' = waitDone(wait)
    /\ tasks' = setTask(t, IF tasks[t].pc = "done" THEN "loop" ELSE "fcheck", 0, 0)
    /\ UNCHANGED <<exit, outputs, nextId, synchronous, chanVars, callVars,
                   logVars, flushVars>>

\* Logger.flush: if len(logger.msgChan) > 0
TaskFlushCheck(t) ==
    /\ exit = "none"
    /\ UNCHANGED <<nCalls, registerVars, levelVars, formatVars>>
    /\ tasks[t].pc = "fcheck"
    /\ tasks' = setTask(t, IF Len(msgChan[cur]) > 0 THEN "frecv" ELSE "fflush", 0, 0)
    /\ UNCHANGED <<exit, outputs, nextId, synchronous, wait, chanVars,
                   callVars, logVars, flushVars>>

\* Logger.flush: loggerMsg := <-logger.msgChan finds the channel empty
\* (another goroutine took the message) and blocks on it
TaskFlushPark(t) ==
    /\ exit = "none"
    /\ UNCHANGED <<nCalls, registerVars, levelVars, formatVars>>
    /\ tasks[t].pc = "frecv"
    /\ msgChan[cur] = <<>>
    /\ tasks' = setTask(t, "fparked", cur, 0)
    /\ UNCHANGED <<exit, outputs, nextId, synchronous, wait, chanVars,
                   callVars, logVars, flushVars>>

\* Logger.flush: loggerMsg := <-logger.msgChan
TaskFlushRecv(t) ==
    /\ exit = "none"
    /\ UNCHANGED <<nCalls, registerVars, levelVars, formatVars>>
    /\ tasks[t].pc \in {"frecv", "fparked"}
    /\ LET g == IF tasks[t].pc = "frecv" THEN cur ELSE tasks[t].g IN
        /\ msgChan[g] # <<>>
        /\ msgChan' = [msgChan EXCEPT ![g] = Tail(@)]
        /\ tasks' = setTask(t, "fwrite", 0, Head(msgChan[g]))
    /\ UNCHANGED <<exit, outputs, nextId, synchronous, wait, cur, signalChan,
                   chanCap, callVars, logVars, flushVars>>

\* callers that are inside a call of Flush
InFlush == {c \in Callers : pc[c] \in {"fsend", "fwait"}}

\* Logger.flush: the loop calling Flush on every binding
TaskFlushOutputs(t) ==
    /\ exit = "none"
    /\ UNCHANGED <<nCalls, registerVars, levelVars, formatVars>>
    /\ tasks[t].pc = "fflush"
    /\ fseen' = [c \in Callers |->
                    IF c \in InFlush
                    THEN [fseen[c] EXCEPT !.seen = @ \cup Ids(outputs)]
                    ELSE fseen[c]]
    /\ tasks' = setTask(t, "loop", 0, 0)
    /\ UNCHANGED <<exit, outputs, nextId, synchronous, wait, chanVars,
                   callVars, logVars, nFlush>>

\* ---------------------------------------------------------------- Flush
\* Logger.Flush: asynchronous, the caller goes on to send the signal;
\* synchronous, it calls Logger.flush, whose body is under flushGuard (nothing
\* is ever sent on the channel of a synchronous logger, so that body has only
\* the bindings to flush).
Flush(c) ==
    /\ Call(c)
    /\ nFlush < MaxFlush
    /\ nFlush' = nFlush + 1
    /\ IF ~synchronous
       THEN /\ pc' = [pc EXCEPT ![c] = "fsend"]
            /\ cg' = [cg EXCEPT ![c] = cur]
            /\ fseen' = [fseen EXCEPT ![c] =
                            [mode |-> "async", seen |-> {}, outs |-> {}]]
            /\ UNCHANGED ret
       ELSE /\ pc' = [pc EXCEPT ![c] = "flushRet"]
            /\ fseen' = [fseen EXCEPT ![c] =
                            [mode |-> "sync",
                             seen |-> IF flushGuard(synchronous)
                                      THEN Ids(outputs) ELSE {},
                             outs |-> Ids(outputs)]]
            /\ UNCHANGED <<cg, ret>>
    /\ UNCHANGED <<exit, outputs, nextId, synchronous, wait, chanVars, tasks,
                   cmsg, logVars>>

\* logger.signalChan <- "flush": completes when the one slot is free
FlushSend(c) ==
    /\ exit = "none"
    /\ UNCHANGED <<nCalls, registerVars, levelVars, formatVars>>
    /\ pc[c] = "fsend"
    /\ signalChan[cg[c]] < 1
    /\ signalChan' = [signalChan EXCEPT ![cg[c]] = @ + 1]
    /\ pc' = [pc EXCEPT ![c] = "fwait"]
    /\ UNCHANGED <<exit, outputs, nextId, synchronous, wait, cur, msgChan,
                   chanCap, tasks, cg, cmsg, ret, logVars, flushVars>>

\* logger.wait.Wait() returns when the counter is zero
FlushWait(c) ==
    /\ exit = "none"
    /\ UNCHANGED <<nCalls, registerVars, levelVars, formatVars>>
    /\ pc[c] = "fwait"
    /\ wait = 0
    /\ pc' = [pc EXCEPT ![c] = "flushRet"]
    /\ fseen' = [fseen EXCEPT ![c].outs = Ids(outputs)]
    /\ UNCHANGED <<exit, outputs, nextId, synchronous, wait, chanVars, tasks,
                   cg, cmsg, ret, logVars, nFlush>>

\* ---------------------------------------------------------------- Next
Next ==
    \/ \E c \in Admins, n \in AttachNames, l \in AttachLevels, ok \in BOOLEAN :
          Attach(c, n, l, ok)
    \/ \E c \in Admins, n \in AttachNames : Detach(c, n)
    \/ \E c \in Admins, n \in QueueCaps : SetAsync(c, n)
    \/ \E c \in Callers, l \in LogLevels : Writer(c, l)
    \/ \E c \in Callers : WriterSend(c)
    \/ \E c \in Callers : Flush(c)
    \/ \E c \in Callers : FlushSend(c)
    \/ \E c \in Callers : FlushWait(c)
    \/ \E t \in 1 .. Len(tasks) : TaskPark(t)
    \/ \E t \in 1 .. Len(tasks) : TaskRecvMsg(t)
    \/ \E t \in 1 .. Len(tasks) : TaskRecvSig(t)
    \/ \E t \in 1 .. Len(tasks) : TaskWrite(t)
    \/ \E t \in 1 .. Len(tasks) : TaskDone(t)
    \/ \E t \in 1 .. Len(tasks) : TaskFlushCheck(t)
    \/ \E t \in 1 .. Len(tasks) : TaskFlushPark(t)
    \/ \E t \in 1 .. Len(tasks) : TaskFlushRecv(t)
    \/ \E t \in 1 .. Len(tasks) : TaskFlushOutputs(t)

Spec == Init /\ [][Next]_vars

\* the levels and thresholds of the level check
AllLevels == LoggerLevelEmergency .. LoggerLevelDebug

\* one caller, one more binding of any threshold, events of any level,
\* dispatched by the caller and, after SetAsync, by the drain goroutine
LevelNext ==
    \/ \E l \in AllLevels : Attach("main", "file", l, TRUE)
    \/ SetAsync("main", 1)
    \/ \E l \in AllLevels : Writer("main", l)
    \/ WriterSend("main")
    \/ \E t \in 1 .. Len(tasks) : TaskPark(t)
    \/ \E t \in 1 .. Len(tasks) : TaskRecvMsg(t)
    \/ \E t \in 1 .. Len(tasks) : TaskWrite(t)
    \/ \E t \in 1 .. Len(tasks) : TaskDone(t)

LevelSpec == Init /\ [][LevelNext]_vars

\* a step of drain goroutine t
TaskStep(t) ==
    /\ t <= Len(tasks)
    /\ \/ TaskPark(t) \/ TaskRecvMsg(t) \/ TaskRecvSig(t) \/ TaskWrite(t)
       \/ TaskDone(t) \/ TaskFlushCheck(t) \/ TaskFlushPark(t)
       \/ TaskFlushRecv(t) \/ TaskFlushOutputs(t)

\* a step of caller c inside a call: the channel sends and wait.Wait()
CallerStep(c) == WriterSend(c) \/ FlushSend(c) \/ FlushWait(c)

\* the Go scheduler runs every goroutine that can run
FairSpec ==
    /\ Spec
    /\ \A t \in 1 .. MaxAsync : WF_vars(TaskStep(t))
    /\ \A c \in Callers : WF_vars(CallerStep(c))

\* ---------------------------------------------------------------- Register
\* what the init functions may pass to Register: a name and a constructor,
\* "nil" being the nil func
RegisterNames == {"console", "file", "api", "db"}
Constructors == {"NewAdapter", "NewOtherAdapter", "nil"}

\* adapters[adapterName]: the zero value, nil, for a key the map lacks
adaptersAt(reg, adapterName) ==
    IF adapterName \in DOMAIN reg THEN reg[adapterName] ELSE "nil"

\* a slip of Register: only the nil constructor is refused
registerPanicNilOnly(reg, adapterName, newLog) ==
    IF newLog = "nil" THEN "is nil" ELSE "none"

\* which panic, if any, Register raises
registerPanic(reg, adapterName, newLog) ==
    IF adaptersAt(reg, adapterName) # "nil"
    THEN "already registered"
    ELSE IF newLog = "nil"
    THEN "is nil"
    ELSE "none"

\* Register: panic, or adapters[adapterName] = newLog
Register(adapterName, newLog) ==
    /\ panicked = "none"
    /\ LET p == registerPanic(registry, adapterName, newLog) IN
       IF p # "none"
       THEN panicked' = p /\ UNCHANGED registry
       ELSE /\ registry' = [n \in DOMAIN registry \cup {adapterName} |->
                               IF n = adapterName THEN newLog ELSE registry[n]]
            /\ UNCHANGED panicked
    /\ UNCHANGED <<exit, outputs, nextId, synchronous, wait, chanVars, tasks,
                   callVars, logVars, flushVars, nCalls, levelVars, formatVars>>

\* package initialization: the registry is empty and the init functions call
\* Register
RegisterInit ==
    /\ NewLogger
    /\ registry = [n \in {} |-> "nil"]
    /\ panicked = "none"
    /\ NoLevelCall
    /\ NoFormatCall

RegisterNext == \E n \in RegisterNames, f \in Constructors : Register(n, f)

RegisterSpec == RegisterInit /\ [][RegisterNext]_vars

\* ---------------------------------------------------------------- LoggerLevel
\* a string is the sequence of its characters; DotlessI is U+0131, the
\* lower-case letter whose upper case is the ASCII "I"
DotlessI == "U+0131"

LowerLetters == <<"a", "b", "c", "d", "e", "f", "g", "i", "l", "m", "n", "o",
                  "r", "t", "u", "w", "x", "y">>
UpperLetters == <<"A", "B", "C", "D", "E", "F", "G", "I", "L", "M", "N", "O",
                  "R", "T", "U", "W", "X", "Y">>

\* unicode.ToUpper on one character
toUpperRune(r) ==
    IF \E i \in 1 .. Len(LowerLetters) : LowerLetters[i] = r
    THEN UpperLetters[CHOOSE i \in 1 .. Len(LowerLetters) : LowerLetters[i] = r]
    ELSE IF r = DotlessI THEN "I"
    ELSE r

\* strings.ToUpper
ToUpper(str) == [i \in 1 .. Len(str) |-> toUpperRune(str[i])]

\* the cases of the switch, in order
levelCases ==
    << [name |-> <<"E", "M", "E", "R", "G", "E", "N", "C", "Y">>,
        level |-> LoggerLevelEmergency],
       [name |-> <<"A", "L", "E", "R", "T">>, level |-> LoggerLevelAlert],
       [name |-> <<"C", "R", "I", "T", "I", "C", "A", "L">>,
        level |-> LoggerLevelCritical],
       [name |-> <<"E", "R", "R", "O", "R">>, level |-> LoggerLevelError],
       [name |-> <<"W", "A", "R", "N", "I", "N", "G">>,
        level |-> LoggerLevelWarning],
       [name |-> <<"N", "O", "T", "I", "C", "E">>, level |-> LoggerLevelNotice],
       [name |-> <<"I", "N", "F", "O">>, level |-> LoggerLevelInfo],
       [name |-> <<"D", "E", "B", "U", "G">>, level |-> LoggerLevelDebug] >>

\* Logger.LoggerLevel
LoggerLevel(str) ==
    LET up == ToUpper(str)
        hit == {i \in 1 .. Len(levelCases) : levelCases[i].name = up}
    IN  IF hit # {}
        THEN levelCases[CHOOSE i \in hit : \A j \in hit : i <= j].level
        ELSE LoggerLevelDebug

\* the characters a caller may write for an upper-case letter
Forms(ch) ==
    {ch} \cup {LowerLetters[i] : i \in {j \in 1 .. Len(UpperLetters) :
                                          UpperLetters[j] = ch}}
         \cup (IF ch = "I" THEN {DotlessI} ELSE {})

\* every spelling of a name in those characters
RECURSIVE Spellings(_)
Spellings(name) ==
    IF name = <<>> THEN {<<>>}
    ELSE {<<c>> \o t : c \in Forms(Head(name)), t \in Spellings(Tail(name))}

\* strings that spell no level name
OtherStrs ==
    { <<>>, <<"o", "o", "o", "x">>, <<"D", "E", "B", "U">>,
      <<"d", "e", "b", "u", "g", "g">>, <<"w", "a", "r", "n">>, <<"7">>,
      <<" ", "I", "N", "F", "O">>, <<"i", "n", "f", "o", " ">>,
      <<"E", "R", "R">> }

\* the arguments LoggerLevel is called with
LevelStrs ==
    UNION {Spellings(levelCases[i].name) : i \in 1 .. Len(levelCases)}
        \cup OtherStrs

LoggerLevelInit ==
    /\ NewLogger
    /\ registry = [n \in adapters |-> "NewAdapter"]
    /\ panicked = "none"
    /\ levelStr \in LevelStrs
    /\ levelRet = -1
    /\ NoFormatCall

\* level := logger.LoggerLevel(levelStr)
CallLoggerLevel ==
    /\ levelRet = -1
    /\ levelRet' = LoggerLevel(levelStr)
    /\ UNCHANGED <<exit, outputs, nextId, synchronous, wait, chanVars, tasks,
                   callVars, logVars, flushVars, nCalls, registerVars,
                   levelStr, formatVars>>

LoggerLevelNext == CallLoggerLevel

LoggerLevelSpec == LoggerLevelInit /\ [][LoggerLevelNext]_vars

\* ---------------------------------------------------------------- format
\* a string is a sequence of symbols: the character "%" and words

\* strings.Index: where old first occurs in str, 0 if nowhere
Index(str, old) ==
    LET at == {i \in 1 .. Len(str) - Len(old) + 1 :
                  SubSeq(str, i, i + Len(old) - 1) = old}
    IN  IF at = {} THEN 0 ELSE CHOOSE i \in at : \A j \in at : i <= j

\* a slip of loggerMessageFormat: -1 where the code passes 1
RECURSIVE ReplaceEvery(_, _, _, _)
ReplaceEvery(str, old, new, n) ==
    LET i == Index(str, old) IN
    IF i = 0 THEN str
    ELSE SubSeq(str, 1, i - 1) \o new
         \o ReplaceEvery(SubSeq(str, i + Len(old), Len(str)), old, new, n)

\* strings.Replace: the first n occurrences of old, left to right and not
\* overlapping, replaced by new; all of them for n < 0
RECURSIVE Replace(_, _, _, _)
Replace(str, old, new, n) ==
    LET i == Index(str, old) IN
    IF n = 0 \/ i = 0 THEN str
    ELSE SubSeq(str, 1, i - 1) \o new
         \o Replace(SubSeq(str, i + Len(old), Len(str)), old, new, n - 1)

\* the placeholders in the order loggerMessageFormat replaces them, each with
\* the field that replaces it
placeholders ==
    << [old |-> <<"%", "timestamp", "%">>, field |-> "Timestamp"],
       [old |-> <<"%", "timestamp_format", "%">>, field |-> "TimestampFormat"],
       [old |-> <<"%", "millisecond", "%">>, field |-> "Millisecond"],
       [old |-> <<"%", "millisecond_format", "%">>, field |-> "MillisecondFormat"],
       [old |-> <<"%", "level", "%">>, field |-> "Level"],
       [old |-> <<"%", "level_string", "%">>, field |-> "LevelString"],
       [old |-> <<"%", "file", "%">>, field |-> "File"],
       [old |-> <<"%", "line", "%">>, field |-> "Line"],
       [old |-> <<"%", "function", "%">>, field |-> "Function"],
       [old |-> <<"%", "body", "%">>, field |-> "Body"] >>

\* the values of the local `message`: the template, then the result of each
\* of the Replace calls from the k-th on
RECURSIVE formatSteps(_, _, _)
formatSteps(msg, fields, k) ==
    IF k > Len(placeholders) THEN <<msg>>
    ELSE <<msg>> \o formatSteps(Replace(msg, placeholders[k].old,
                                        fields[placeholders[k].field], 1),
                                fields, k + 1)

\* loggerMessageFormat
loggerMessageFormat(fmt, fields) ==
    LET steps == formatSteps(fmt, fields, 1) IN steps[Len(steps)]

\* the templates, bodies and file names of the calls
FormatSyms == {"%", "level", "file", "body"}
Formats == UNION {[1 .. n -> FormatSyms] : n \in 0 .. MaxFormatLen}
Bodies == {<<>>, <<"text">>, <<"%", "body", "%">>, <<"%", "level", "%">>}
Files == {<<"main.go">>, <<"%", "body", "%">>}

\* the messages Writer builds: numbers and times hold no "%"
LoggerMsgs ==
    {[f \in MsgFields |->
        CASE f = "Body" -> b
          [] f = "File" -> fl
          [] f = "Level" -> <<"7">>
          [] f = "LevelString" -> <<"Debug">>
          [] f = "Line" -> <<"77">>
          [] f = "Function" -> <<"main.main">>
          [] OTHER -> <<"1">>] : b \in Bodies, fl \in Files}

FormatInit ==
    /\ NewLogger
    /\ registry = [n \in adapters |-> "NewAdapter"]
    /\ panicked = "none"
    /\ NoLevelCall
    /\ format \in Formats
    /\ loggerMsg \in LoggerMsgs
    /\ formatted = <<>>
    /\ trace = <<>>

\* str := loggerMessageFormat(format, loggerMsg)
CallLoggerMessageFormat ==
    /\ trace = <<>>
    /\ formatted' = loggerMessageFormat(format, loggerMsg)
    /\ trace' = formatSteps(format, loggerMsg, 1)
    /\ UNCHANGED <<exit, outputs, nextId, synchronous, wait, chanVars, tasks,
                   callVars, logVars, flushVars, nCalls, registerVars,
                   levelVars, format, loggerMsg>>

FormatNext == CallLoggerMessageFormat

FormatSpec == FormatInit /\ [][FormatNext]_vars

\* ---------------------------------------------------------------- properties
Events == 1 .. Len(events)

\* the event was logged after SetAsync
IsAsync(e) == events[e].g > 0

\* the calls of writeToOutputs made for event e
Dispatches(e) == {i \in 1 .. Len(dispatched) : dispatched[i].e = e}

\* the calls of binding b's Write made for event e
Writes(b, e) == {i \in 1 .. Len(written) : written[i].b = b /\ written[i].e = e}

\* every SetAsync call came before the first log call
AsyncFromStart == ~synchronous /\ \A e \in Events : events[e].g = cur

\* position of event e in the order of enqueueing
EnqPos(e) == CHOOSE i \in 1 .. Len(enq) : enq[i] = e

\* C1: a caller's asynchronous Flush has returned: every event the caller
\* logged before it has been dispatched, every binding attached since the log
\* call whose threshold admits the event was written it exactly once, and no
\* binding was ever written an event twice.
C1_FlushReturnsAfterAllWrites ==
    /\ \A c \in Callers :
        (pc[c] = "flushRet" /\ fseen[c].mode = "async") =>
            \A e \in Events : events[e].by = c =>
                /\ Dispatches(e) # {}
                /\ \A i \in 1 .. Len(outputs) :
                      (outputs[i].id \in events[e].outs
                         /\ outputs[i].Level >= events[e].level)
                      => Cardinality(Writes(outputs[i].id, e)) = 1
    /\ \A i, j \in 1 .. Len(written) :
          (written[i].b = written[j].b /\ written[i].e = written[j].e) => i = j

\* a caller logged two events, flushed, and the console binding holds both
C1_Witness ==
    /\ pc["main"] = "flushRet" /\ fseen["main"].mode = "async" /\ AsyncFromStart
    /\ Cardinality({e \in Events : events[e].by = "main"}) = 2
    /\ \A e \in Events : Cardinality(Writes(1, e)) = 1

\* C2: an asynchronous Flush has returned: every binding attached at its
\* return had its Flush invoked by a drain goroutine since the call began.
C2_AsyncFlushFlushesBindings ==
    \A c \in Callers :
        (pc[c] = "flushRet" /\ fseen[c].mode = "async") =>
            fseen[c].outs \subseteq fseen[c].seen

\* C3: a synchronous Flush has returned: every attached binding had its
\* Flush invoked during the call.
C3_SyncFlushFlushesBindings ==
    \A c \in Callers :
        (pc[c] = "flushRet" /\ fseen[c].mode = "sync") =>
            fseen[c].outs \subseteq fseen[c].seen

\* C4: for every call of writeToOutputs and every binding attached at that
\* moment, the binding's Write was called for the event iff threshold >= level;
\* no other binding was written the event.
C4_WriteIffThresholdAdmits ==
    /\ \A d \in 1 .. Len(dispatched) :
         LET snap == dispatched[d].snap
             e == dispatched[d].e
         IN  /\ events[e].level \in 0 .. 7
             /\ \A i \in 1 .. Len(snap) :
                   (Writes(snap[i].id, e) # {}) <=> (snap[i].Level >= events[e].level)
    /\ \A w \in 1 .. Len(written) :
         \E d \in Dispatches(written[w].e) :
            written[w].b \in Ids(dispatched[d].snap)

\* a drain goroutine and a caller each dispatched an event that one attached
\* binding admitted and another rejected
C4_Witness ==
    \E d1, d2 \in 1 .. Len(dispatched) :
        /\ dispatched[d1].by.task = 0
        /\ dispatched[d2].by.task > 0
        /\ \A d \in {d1, d2} :
             \E i, j \in 1 .. Len(dispatched[d].snap) :
                /\ Writes(dispatched[d].snap[i].id, dispatched[d].e) # {}
                /\ Writes(dispatched[d].snap[j].id, dispatched[d].e) = {}

\* C5: each binding is written asynchronous events in the order in which they
\* were enqueued.
C5_WritesInEnqueueOrder ==
    \A i, j \in 1 .. Len(written) :
        (i < j /\ written[i].b = written[j].b
           /\ IsAsync(written[i].e) /\ IsAsync(written[j].e))
        => EnqPos(written[i].e) <= EnqPos(written[j].e)

\* the order is kept as long as SetAsync was called once
SingleTaskOrder == Len(tasks) <= 1 => C5_WritesInEnqueueOrder
NoTwoBindingsOfOneName ==
    \A i, j \in 1 .. Len(outputs) : outputs[i].Name = outputs[j].Name => i = j

OthersOf(outs, adapterName) ==
    LET differs(o) == o.Name # adapterName IN SelectSeq(outs, differs)

\* C7: Detach(name) leaves exactly the bindings whose name differs, in their
\* order, whatever the binding sequence was.
C7_DetachKeepsOthersInOrder ==
    [][\A c \in Admins, n \in AttachNames :
          Detach(c, n) => outputs' = OthersOf(outputs, n)]_vars

\* Detach took the middle one of three bindings and left the other two in
\* their order
C7_Witness ==
    /\ nextId = 4 /\ Len(outputs) = 2
    /\ outputs[1].id = 1 /\ outputs[2].id = 3

Pending(e) ==
    /\ IsAsync(e)
    /\ \/ Dispatches(e) = {}
       \/ \E t \in 1 .. Len(tasks) :
             tasks[t].pc \in {"done", "fdone"} /\ tasks[t].msg = e

\* binding b's Write returned an error for event e
Failed(b, e) == \E w \in Writes(b, e) : written[w].err

\* C9: a Write error does not stop the dispatch (every later binding of the
\* sequence that admits the event is written it), the log call returns nil,
\* and the counter is decremented once for the event.
C9_WriteErrorIsNotFatal ==
    /\ \A d \in 1 .. Len(dispatched) :
         LET snap == dispatched[d].snap
             e == dispatched[d].e
         IN  \A i, j \in 1 .. Len(snap) :
                (i < j /\ Failed(snap[i].id, e) /\ snap[j].Level >= events[e].level)
                => Writes(snap[j].id, e) # {}
    /\ \A e \in Events :
         (\E w \in 1 .. Len(written) : written[w].e = e /\ written[w].err) =>
            /\ (pc[events[e].by] = "send" /\ cmsg[events[e].by] = e)
                  \/ ret[events[e].by] = "nil"
            /\ wait = Cardinality({x \in Events : Pending(x)})

\* an asynchronous event whose first Write failed was written to the next
\* binding, and its Done has run
C9_Witness ==
    \E e \in Events :
        /\ IsAsync(e) /\ ~Pending(e) /\ wait = 0
        /\ \E d \in Dispatches(e) :
              /\ Len(dispatched[d].snap) = 2
              /\ Failed(dispatched[d].snap[1].id, e)
              /\ Writes(dispatched[d].snap[2].id, e) # {}
\* no message channel holds more events than its capacity
QueueBounded == \A g \in DOMAIN msgChan : Len(msgChan[g]) <= chanCap[g]

\* C10: the queue never exceeds its capacity and no event is dropped: every
\* event a log call was made for is eventually dispatched (as long as the
\* process is not terminated).
C10_NoEventDropped ==
    /\ []QueueBounded
    /\ \A e \in 1 .. MaxLogs :
          (Len(events) >= e) ~> (Dispatches(e) # {} \/ exit # "none")

\* an event is dispatched unless the process is terminated or SetAsync
\* replaces the channels after the log call
DispatchedUnlessQueueReplaced ==
    \A e \in 1 .. MaxLogs :
        (Len(events) >= e) ~>
            (Dispatches(e) # {} \/ exit # "none"
               \/ (Len(events) >= e /\ events[e].g # cur))

\* C11: an Attach whose adapter Init returns an error (the name registered and
\* not attached) leaves the process running and returns a non-nil error to
\* its caller.
C11_InitErrorIsReturned ==
    [][\A c \in Admins, n \in adapters, l \in AttachLevels :
          (Attach(c, n, l, FALSE) /\ \A i \in 1 .. Len(outputs) : outputs[i].Name # n)
          => (exit' = "none" /\ ret'[c] \notin {"none", "nil"})]_vars

\* C12: Register with a registered name or with the nil constructor panics
\* and leaves the registry as it was; no step removes a registered name or
\* changes the constructor it was first registered with.
C12_RegisterAtMostOnce ==
    /\ [][\A n \in RegisterNames, f \in Constructors :
            (Register(n, f) /\ (n \in DOMAIN registry \/ f = "nil"))
            => (panicked' # "none" /\ registry' = registry)]_vars
    /\ [][\A n \in DOMAIN registry :
            n \in DOMAIN registry' /\ registry'[n] = registry[n]]_vars

\* a second Register of a name panicked, with two names in the registry
C12_Witness ==
    /\ panicked = "already registered"
    /\ Cardinality(DOMAIN registry) >= 2

\* the mixes of upper and lower case of a name
RECURSIVE CaseMixes(_)
CaseMixes(name) ==
    IF name = <<>> THEN {<<>>}
    ELSE {<<c>> \o t : c \in Forms(Head(name)) \ {DotlessI},
                       t \in CaseMixes(Tail(name))}

\* the strings that are a level name in some mix of case
AllCaseMixes ==
    UNION {CaseMixes(levelCases[i].name) : i \in 1 .. Len(levelCases)}

\* C13: LoggerLevel returns the level's number for each of the eight level
\* names in any mix of upper and lower case, and Debug (7) for every other
\* string, the empty one included.
C13_LoggerLevelCaseInsensitiveTotal ==
    levelRet # -1 =>
        /\ \A i \in 1 .. Len(levelCases) :
              levelStr \in CaseMixes(levelCases[i].name)
              => levelRet = levelCases[i].level
        /\ levelStr \notin AllCaseMixes => levelRet = LoggerLevelDebug

\* the claim holds of every string that has no U+0131 in it
LoggerLevelWithoutDotlessI ==
    (levelRet # -1 /\ \A k \in 1 .. Len(levelStr) : levelStr[k] # DotlessI)
    => /\ \A i \in 1 .. Len(levelCases) :
             levelStr \in CaseMixes(levelCases[i].name)
             => levelRet = levelCases[i].level
       /\ levelStr \notin AllCaseMixes => levelRet = LoggerLevelDebug

\* old occurs in str at position i
OccursAt(str, old, i) ==
    /\ i >= 1 /\ i + Len(old) - 1 <= Len(str)
    /\ \A j \in 1 .. Len(old) : str[i + j - 1] = old[j]

\* after is before with the leftmost occurrence of old, if there is one,
\* replaced by new, and nothing else changed
LeftmostReplaced(before, after, old, new) ==
    IF \A i \in 1 .. Len(before) : ~OccursAt(before, old, i)
    THEN after = before
    ELSE \E i \in 1 .. Len(before) :
            /\ OccursAt(before, old, i)
            /\ \A j \in 1 .. i - 1 : ~OccursAt(before, old, j)
            /\ Len(after) = Len(before) - Len(old) + Len(new)
            /\ \A j \in 1 .. i - 1 : after[j] = before[j]
            /\ \A j \in 1 .. Len(new) : after[i - 1 + j] = new[j]
            /\ \A j \in i + Len(old) .. Len(before) :
                  after[j - Len(old) + Len(new)] = before[j]

\* C14: each placeholder is replaced at most once, at its leftmost occurrence
\* in the message, and the body is inserted literally: the rendered result is
\* the message as the insertion of the body left it, whatever placeholders
\* the body holds.
C14_OneReplacementBodyLiteral ==
    trace # <<>> =>
        /\ Len(trace) = Len(placeholders) + 1
        /\ trace[1] = format
        /\ \A k \in 1 .. Len(placeholders) :
              /\ LeftmostReplaced(trace[k], trace[k + 1], placeholders[k].old,
                                  loggerMsg[placeholders[k].field])
              /\ placeholders[k].field = "Body" => formatted = trace[k + 1]

\* a template with the body placeholder twice and a body that is the level
\* placeholder: the first is replaced, the body is left as it is
C14_Witness ==
    /\ format = <<"%", "body", "%", "%", "body", "%">>
    /\ loggerMsg.Body = <<"%", "level", "%">>
    /\ formatted = <<"%", "level", "%", "%", "body", "%">>

\* C15: the counter is never negative and equals the number of events that a
\* log call counted and whose dispatch has not completed; a step changes it
\* by one up exactly when a log call counts an event, by one down exactly when
\* a drain goroutine is done with one, in the select branch or in the loop of
\* flush.
C15_CounterCountsPending ==
    /\ [](wait >= 0 /\ wait = Cardinality({e \in Events : Pending(e)}))
    /\ [][/\ (\E c \in Callers : pc[c] # "send" /\ pc'[c] = "send")
             <=> wait' = wait + 1
          /\ (\E t \in 1 .. Len(tasks) :
                 tasks[t].pc \in {"done", "fdone"} /\ tasks'[t].pc # tasks[t].pc)
             <=> wait' = wait - 1]_vars

\* one event was counted off by the select branch, another was dispatched by
\* the loop of flush and is about to be counted off
C15_Witness ==
    /\ wait = 1
    /\ \E t \in 1 .. Len(tasks) : tasks[t].pc = "fdone"
    /\ \E e \in Events : IsAsync(e) /\ ~Pending(e)

\* C16: at most one drain goroutine consumes the logger's events, and every
\* asynchronous dispatch is made by that goroutine.
C16_AtMostOneDrainTask ==
    /\ Len(tasks) <= 1
    /\ \A d1, d2 \in 1 .. Len(dispatched) :
          (dispatched[d1].by.task > 0 /\ dispatched[d2].by.task > 0)
          => dispatched[d1].by.task = dispatched[d2].by.task

\* C17: the logger is synchronous until SetAsync is called, SetAsync leaves
\* it asynchronous with one more drain goroutine started, and no step returns
\* an asynchronous logger to synchronous mode.
C17_ModeIsOneWay ==
    /\ [](Len(tasks) = 0 => synchronous)
    /\ [][/\ ~synchronous => ~synchronous'
          /\ \A c \in Admins, n \in QueueCaps :
                SetAsync(c, n) =>
                    /\ ~synchronous'
                    /\ Len(tasks') = Len(tasks) + 1
                    /\ tasks'[Len(tasks')].pc = "loop"]_vars

\* after SetAsync the console binding was detached, an event logged and
\* dispatched and a Flush returned: the logger is asynchronous
C17_Witness ==
    /\ ~synchronous /\ outputs = <<>>
    /\ pc["main"] = "flushRet" /\ Len(events) = 1

\* C18: a log call with a level outside 0..7 terminates the process with the
\* counter, the channels and the bindings' writes as they were: no event is
\* made, counted, enqueued or dispatched; a terminated process takes no step.
C18_IllegalLevelIsFatal ==
    /\ [][\A c \in Callers, l \in LogLevels :
            (Writer(c, l) /\ l \notin 0 .. 7) =>
                /\ exit' = "illegal level"
                /\ UNCHANGED <<wait, msgChan, signalChan, events, enq,
                               dispatched, written>>]_vars
    /\ [][exit = "none"]_vars

\* an asynchronous logger that had dispatched one event was terminated by a
\* log call with an illegal level
C18_Witness ==
    /\ exit = "illegal level" /\ ~synchronous
    /\ Len(events) = 1 /\ Len(dispatched) = 1 /\ wait = 0

\* C19: a dispatch by a drain goroutine writes the event to exactly the
\* bindings attached at that moment whose threshold admits it, whichever
\* bindings were attached when the event was logged: not to one detached in
\* between, and to one attached in between.
C19_DispatchUsesCurrentBindings ==
    [][\A t \in 1 .. Len(tasks) :
          TaskWrite(t) =>
              LET e == tasks[t].msg
                  new == {w \in Len(written) + 1 .. Len(written') :
                             written'[w].e = e}
              IN  /\ \A w \in Len(written) + 1 .. Len(written') : w \in new
                  /\ \A b \in 1 .. nextId - 1 :
                        (\E w \in new : written'[w].b = b)
                        <=> (\E i \in 1 .. Len(outputs) :
                                /\ outputs[i].id = b
                                /\ outputs[i].Level >= events[e].level)]_vars

\* an event logged with the console binding attached, dispatched after
\* Detach("console") and Attach of a second binding: written to the second
\* only
C19_Witness ==
    \E e \in Events :
        /\ IsAsync(e) /\ Dispatches(e) # {}
        /\ 1 \in events[e].outs /\ Writes(1, e) = {}
        /\ 2 \notin events[e].outs /\ Writes(2, e) # {}

\* C20: under fair scheduling every call of Flush on an asynchronous logger
\* eventually returns and every log call blocked on the queue eventually
\* returns (unless the process is terminated).
C20_FlushAndLogReturn ==
    \A c \in Callers :
        /\ (pc[c] \in {"fsend", "fwait"}) ~> (pc[c] = "flushRet" \/ exit # "none")
        /\ (pc[c] = "send") ~> (pc[c] # "send" \/ exit # "none")

\* they return as long as SetAsync is not called a second time
ReturnUnlessSetAsyncRepeated ==
    \A c \in Callers :
        /\ (pc[c] \in {"fsend", "fwait"})
              ~> (pc[c] = "flushRet" \/ exit # "none" \/ Len(tasks) > 1)
        /\ (pc[c] = "send") ~> (pc[c] # "send" \/ exit # "none" \/ Len(tasks) > 1)
====
